---- MODULE Spec2Model ----
(***************************************************************************)
(* Markdown-to-Notion: the Markdown company-table extractor                *)
(* parse_markdown_table_to_objects and the CompanyData model, as found in  *)
(* camel_markitdown_client.py and (copied) in streamlit_markitdown_app.py. *)
(*                                                                         *)
(* Text is modelled character by character: a Python str is a sequence of  *)
(* one-character strings, so strip, split, startswith, lower and replace   *)
(* are computed, not assumed.  Python values handed to the pydantic model  *)
(* are tagged: [t |-> type name, v |-> payload].                           *)
(***************************************************************************)
EXTENDS Integers, Sequences, FiniteSets, TLC

(***************************************************************************)
(* Python str methods used by the parser                                   *)
(***************************************************************************)

\* the whitespace characters str.strip() removes, among those of the model's alphabet
Whitespace == {" ", "\t", "\n"}

RECURSIVE lstrip(_)
lstrip(s) == IF s # <<>> /\ Head(s) \in Whitespace THEN lstrip(Tail(s)) ELSE s

RECURSIVE rstrip(_)
rstrip(s) ==
    IF s # <<>> /\ s[Len(s)] \in Whitespace THEN rstrip(SubSeq(s, 1, Len(s) - 1)) ELSE s

strip(s) == rstrip(lstrip(s))

startswith(s, prefix) ==
    Len(s) >= Len(prefix) /\ SubSeq(s, 1, Len(prefix)) = prefix

endswith(s, suffix) ==
    Len(s) >= Len(suffix) /\ SubSeq(s, Len(s) - Len(suffix) + 1, Len(s)) = suffix

\* s.split(sep) for a one-character separator: never empty, keeps empty pieces
RECURSIVE split(_, _)
split(s, sep) ==
    IF \E i \in 1..Len(s) : s[i] = sep
    THEN LET i == CHOOSE k \in 1..Len(s) :
                      s[k] = sep /\ \A j \in 1..(k - 1) : s[j] # sep
         IN  <<SubSeq(s, 1, i - 1)>> \o split(SubSeq(s, i + 1, Len(s)), sep)
    ELSE <<s>>

\* the slice xs[1:-1]
Slice1ToLast(xs) == IF Len(xs) <= 2 THEN <<>> ELSE SubSeq(xs, 2, Len(xs) - 1)

\* s.replace(old, new) for one-character old and new
replace(s, old, new) == [i \in 1..Len(s) |-> IF s[i] = old THEN new ELSE s[i]]

LowerOf ==
    [A |-> "a", B |-> "b", C |-> "c", D |-> "d", E |-> "e", F |-> "f", G |-> "g",
     H |-> "h", I |-> "i", J |-> "j", K |-> "k", L |-> "l", M |-> "m", N |-> "n",
     O |-> "o", P |-> "p", Q |-> "q", R |-> "r", S |-> "s", T |-> "t", U |-> "u",
     V |-> "v", W |-> "w", X |-> "x", Y |-> "y", Z |-> "z"]

lower(s) == [i \in 1..Len(s) |-> IF s[i] \in DOMAIN LowerOf THEN LowerOf[s[i]] ELSE s[i]]

\* "\n".join(ls)
RECURSIVE join(_)
join(ls) ==
    IF ls = <<>> THEN <<>>
    ELSE IF Len(ls) = 1 THEN ls[1]
    ELSE ls[1] \o <<"\n">> \o join(Tail(ls))

\* a comprehension that trims and has no filter
StripOnly(xs) == [i \in 1..Len(xs) |-> strip(xs[i])]

\* [f(x) for x in xs if keep(x)]
RECURSIVE StripNonEmpty(_)
StripNonEmpty(xs) ==
    IF xs = <<>> THEN <<>>
    ELSE (IF strip(Head(xs)) # <<>> THEN <<strip(Head(xs))>> ELSE <<>>)
         \o StripNonEmpty(Tail(xs))

(***************************************************************************)
(* Literals of the source                                                  *)
(***************************************************************************)

HEADER_MARKER == <<"|", " ", "C", "o", "m", "p", "a", "n", "y", " ", "|">>
SEPARATOR_MARKER == <<"|", " ", "-", "-", "-">>
NAN == <<"n", "a", "n">>

F_Company == <<"C", "o", "m", "p", "a", "n", "y">>
F_Company_Website == <<"C", "o", "m", "p", "a", "n", "y", "_", "W", "e", "b", "s", "i", "t", "e">>
F_YC_Link == <<"Y", "C", "_", "L", "i", "n", "k">>
F_Short_Description == <<"S", "h", "o", "r", "t", "_", "D", "e", "s", "c", "r", "i", "p", "t", "i", "o", "n">>
F_Tags == <<"T", "a", "g", "s">>
F_Location == <<"L", "o", "c", "a", "t", "i", "o", "n">>
F_Founder_Link_1 == <<"F", "o", "u", "n", "d", "e", "r", "_", "L", "i", "n", "k", "_", "1">>
F_Founder_Link_2 == <<"F", "o", "u", "n", "d", "e", "r", "_", "L", "i", "n", "k", "_", "2">>
F_Founder_Link_3 == <<"F", "o", "u", "n", "d", "e", "r", "_", "L", "i", "n", "k", "_", "3">>

\* the fields validated by clean_url, all declared Optional[HttpUrl]
UrlFields ==
    {F_Company_Website, F_YC_Link, F_Founder_Link_1, F_Founder_Link_2, F_Founder_Link_3}

(***************************************************************************)
(* Python values and the pydantic model CompanyData                        *)
(***************************************************************************)

PyNone == [t |-> "NoneType", v |-> <<>>]
PyStr(s) == [t |-> "str", v |-> s]
PyList(xs) == [t |-> "list", v |-> xs]
PyUrl(s) == [t |-> "HttpUrl", v |-> s]

\* CompanyData.split_tags, the mode='before' validator of Tags
split_tags(v) ==
    IF v.t = "str"
    THEN IF lower(v.v) = NAN THEN PyNone
         ELSE PyList(StripNonEmpty(split(v.v, ",")))
    ELSE IF v.t = "list" THEN PyList(StripNonEmpty(v.v))
    ELSE PyNone

\* CompanyData.clean_url, the mode='before' validator of the five URL fields
clean_url_str(v, v_stripped) ==
    IF lower(v_stripped) = NAN \/ v_stripped = <<>> THEN PyNone ELSE v

clean_url(v) == IF v.t = "str" THEN clean_url_str(v, strip(v.v)) ELSE v

HTTP == <<"h", "t", "t", "p">>
HTTPS == <<"h", "t", "t", "p", "s">>

\* index of the first occurrence of character c in s, 0 when there is none
find(s, c) ==
    IF \E i \in 1..Len(s) : s[i] = c
    THEN CHOOSE k \in 1..Len(s) : s[k] = c /\ \A j \in 1..(k - 1) : s[j] # c
    ELSE 0

NoWhitespace(s) == \A i \in 1..Len(s) : s[i] \notin Whitespace

\* The type HttpUrl of an Optional[HttpUrl] field, applied to a str: an absolute
\* URL with scheme http or https and a non-empty host is stored with scheme and
\* host in lower case and an empty path made "/"; anything else is a
\* validation error.  A field result is [err |-> the error ("" for none),
\* val |-> the value stored].
HttpUrlOfParts(scheme, host, path) ==
    IF scheme \in {HTTP, HTTPS} /\ host # <<>> /\ NoWhitespace(host) /\ NoWhitespace(path)
    THEN [err |-> "",
          val |-> PyUrl(scheme \o <<":", "/", "/">> \o lower(host)
                        \o (IF path = <<>> THEN <<"/">> ELSE path))]
    ELSE [err |-> "url_parsing", val |-> PyNone]

HttpUrlAuthority(scheme, rest, slash) ==
    IF slash = 0 THEN HttpUrlOfParts(scheme, rest, <<>>)
    ELSE HttpUrlOfParts(scheme, SubSeq(rest, 1, slash - 1), SubSeq(rest, slash, Len(rest)))

HttpUrlAfterScheme(scheme, rest) ==
    IF startswith(rest, <<"/", "/">>)
    THEN HttpUrlAuthority(scheme, SubSeq(rest, 3, Len(rest)),
                          find(SubSeq(rest, 3, Len(rest)), "/"))
    ELSE [err |-> "url_parsing", val |-> PyNone]

HttpUrlAt(s, colon) ==
    IF colon = 0 THEN [err |-> "url_parsing", val |-> PyNone]
    ELSE HttpUrlAfterScheme(lower(SubSeq(s, 1, colon - 1)), SubSeq(s, colon + 1, Len(s)))

HttpUrl(s) == HttpUrlAt(s, find(s, ":"))

\* Company: str and Short_Description: str, required, no validator
StrField(data, name) ==
    IF name \notin DOMAIN data THEN [err |-> "missing", val |-> PyNone]
    ELSE IF data[name].t # "str" THEN [err |-> "string_type", val |-> PyNone]
    ELSE [err |-> "", val |-> data[name]]

\* Location: Optional[str] = None, no validator
OptionalStrField(data, name) ==
    IF name \notin DOMAIN data THEN [err |-> "", val |-> PyNone]
    ELSE IF data[name].t \in {"str", "NoneType"} THEN [err |-> "", val |-> data[name]]
    ELSE [err |-> "string_type", val |-> PyNone]

\* a URL field that turns what it cannot parse into None
OptionalUrlValueCoerced(v) ==
    IF v.t = "str" /\ HttpUrl(v.v).err = "" THEN HttpUrl(v.v)
    ELSE [err |-> "", val |-> PyNone]

\* Optional[HttpUrl] = None behind clean_url; the default is not validated
OptionalUrlValue(v) ==
    IF v.t = "str" THEN HttpUrl(v.v)
    ELSE IF v.t = "NoneType" THEN [err |-> "", val |-> PyNone]
    ELSE [err |-> "url_type", val |-> PyNone]

OptionalUrlField(data, name) ==
    IF name \notin DOMAIN data THEN [err |-> "", val |-> PyNone]
    ELSE OptionalUrlValue(clean_url(data[name]))

\* Tags: Optional[List[str]] = None behind split_tags
TagsField(data, name) ==
    IF name \notin DOMAIN data THEN [err |-> "", val |-> PyNone]
    ELSE [err |-> "", val |-> split_tags(data[name])]

\* the declared fields, by keyword
FieldKey ==
    [Company |-> F_Company,
     Company_Website |-> F_Company_Website,
     YC_Link |-> F_YC_Link,
     Short_Description |-> F_Short_Description,
     Tags |-> F_Tags,
     Location |-> F_Location,
     Founder_Link_1 |-> F_Founder_Link_1,
     Founder_Link_2 |-> F_Founder_Link_2,
     Founder_Link_3 |-> F_Founder_Link_3]

Field(data, k) ==
    CASE k \in {"Company", "Short_Description"} -> StrField(data, FieldKey[k])
      [] k = "Tags" -> TagsField(data, FieldKey[k])
      [] k = "Location" -> OptionalStrField(data, FieldKey[k])
      [] OTHER -> OptionalUrlField(data, FieldKey[k])

\* the object, or the errors that make construction raise ValidationError
Validated(f) ==
    [errors |-> {k \in DOMAIN f : f[k].err # ""},
     obj |-> [k \in DOMAIN f |-> f[k].val]]

\* CompanyData(**data): keys of data that name no field are ignored (pydantic's
\* default extra='ignore').  errors = {} means the object is constructed;
\* otherwise ValidationError is raised and no object exists.
CompanyData(data) == Validated([k \in DOMAIN FieldKey |-> Field(data, k)])

(***************************************************************************)
(* parse_markdown_table_to_objects: the pieces of its body                 *)
(***************************************************************************)

\* The two copies of the function differ only in the text of their messages.
EntryPoints == {"camel_markitdown_client", "streamlit_markitdown_app"}

\* lines = markdown_content.strip().split('\n')
SplitLines(content) == split(strip(content), "\n")

\* a header test that accepts any line opening a table row
IsHeaderLineAnyRow(line) == startswith(strip(line), <<"|">>)

\* line.strip().startswith('| Company |')
IsHeaderLine(line) == startswith(strip(line), HEADER_MARKER)

\* the scan for the header: the 0-based index of the first header line, -1 if none
FindHeaderLineIndex(ls) ==
    IF \E i \in 1..Len(ls) : IsHeaderLine(ls[i])
    THEN (CHOOSE k \in 1..Len(ls) :
              IsHeaderLine(ls[k]) /\ \A j \in 1..(k - 1) : ~IsHeaderLine(ls[j])) - 1
    ELSE -1

\* [h.strip().replace(' ', '_') for h in cells]
HeaderNames(cells) == [i \in 1..Len(cells) |-> replace(strip(cells[i]), " ", "_")]

\* header = [... for h in lines[header_line_index].split('|')[1:-1]]
ParseHeader(line) == HeaderNames(Slice1ToLast(split(line, "|")))

\* a separator test that only looks for a next line
SeparatorPresentAnyLine(ls, hli) == hli + 1 < Len(ls)

\* the negation of the separator test:
\* header_line_index + 1 >= len(lines) or not lines[header_line_index + 1].strip().startswith('| ---')
SeparatorPresent(ls, hli) ==
    ~(\/ hli + 1 >= Len(ls)
      \/ ~startswith(strip(ls[hli + 2]), SEPARATOR_MARKER))

\* the lines the row loop enumerates: lines[header_line_index + 2:]
RowLines(ls, hli) == SubSeq(ls, hli + 3, Len(ls))

\* a row test that forgets the closing pipe
IsTableRowOpen(line_stripped) == startswith(line_stripped, <<"|">>)

\* the row test: line_stripped.startswith('|') and line_stripped.endswith('|')
IsTableRow(line_stripped) ==
    ~(~startswith(line_stripped, <<"|">>) \/ ~endswith(line_stripped, <<"|">>))

\* [v.strip() for v in cells]
StripEach(cells) == [i \in 1..Len(cells) |-> strip(cells[i])]

\* values = [v.strip() for v in line_stripped.split('|')[1:-1]]
RowValues(line_stripped) == StripEach(Slice1ToLast(split(line_stripped, "|")))

\* a sentinel test that knows only the lower-case spelling
CellValueLowerCaseOnly(v) == IF v # NAN THEN PyStr(v) ELSE PyNone

\* the cell of the dict: v if v.lower() != 'nan' else None
CellValue(v) == IF lower(v) # NAN THEN PyStr(v) ELSE PyNone

\* a mapping by column position: the i-th cell goes to the i-th declared field
RowDataByIndex(hdr, values) ==
    LET order == <<F_Company, F_Company_Website, F_YC_Link, F_Short_Description,
                   F_Tags, F_Location, F_Founder_Link_1, F_Founder_Link_2,
                   F_Founder_Link_3>>
        n == IF Len(values) < Len(order) THEN Len(values) ELSE Len(order)
    IN  [h \in {order[i] : i \in 1..n} |->
            CellValue(values[CHOOSE i \in 1..n : order[i] = h])]

\* row_data after the loop over zip(header, values): a later column of the same
\* name overwrites an earlier one
RowDataUpTo(hdr, values, n) ==
    [h \in {hdr[i] : i \in 1..n} |->
        CellValue(values[CHOOSE i \in 1..n :
                             hdr[i] = h /\ \A j \in (i + 1)..n : hdr[j] # h])]

RowData(hdr, values) ==
    RowDataUpTo(hdr, values, IF Len(hdr) < Len(values) THEN Len(hdr) ELSE Len(values))

\* the number the messages print: header_line_index + 2 + line_number + 1
ReportedLine(hli, line_number) == hli + 2 + line_number + 1

NoLine == 0

\* A message on the reporting channel (print or logging): its kind, the line
\* number it prints (NoLine when it prints none) and the row text it quotes.
TableNotFoundMsg == [kind |-> "TableNotFound", line |-> NoLine, text |-> <<>>]
SeparatorMissingMsg == [kind |-> "SeparatorMissing", line |-> NoLine, text |-> <<>>]

ColumnCountMismatchMsg(entry, hli, line_number, line_stripped) ==
    [kind |-> "ColumnCountMismatch",
     line |-> ReportedLine(hli, line_number),
     text |-> line_stripped]

\* the Streamlit copy logs the row text alone
RowValidationFailedMsg(entry, hli, line_number, line_stripped) ==
    [kind |-> "RowValidationFailed",
     line |-> IF entry = "camel_markitdown_client"
              THEN ReportedLine(hli, line_number) ELSE NoLine,
     text |-> line_stripped]

NoObject == [k \in DOMAIN FieldKey |-> PyNone]

\* the classes an exception raised in the try block is an instance of
\* (pydantic's ValidationError derives from ValueError)
ExceptionBases == [ValidationError |-> {"ValidationError", "ValueError", "Exception"}]

\* a handler that is written for another exception
CaughtKeyErrorOnly(exc) == "KeyError" \in ExceptionBases[exc]

\* the except clauses of the try block: ValidationError, then Exception
Caught(exc) == ExceptionBases[exc] \cap {"ValidationError", "Exception"} # {}

\* where control is after an iteration: in the loop, or out of the function
\* with the exception when no except clause catches it
AfterRow(outcome) ==
    IF outcome = "invalid" /\ ~Caught("ValidationError") THEN "raised" ELSE "rows"

\* try: company = CompanyData(**row_data) ... except ValidationError
TryCompanyData(c) ==
    IF c.errors # {} THEN [outcome |-> "invalid", obj |-> NoObject]
    ELSE [outcome |-> "append", obj |-> c.obj]

RowOfValues(hdr, values) ==
    IF Len(values) # Len(hdr) THEN [outcome |-> "mismatch", obj |-> NoObject]
    ELSE TryCompanyData(CompanyData(RowData(hdr, values)))

\* what one iteration of the row loop does with the stripped line: outcome is
\* "skip", "mismatch", "invalid" (ValidationError) or "append" (of obj)
RowResult(hdr, line_stripped) ==
    IF ~IsTableRow(line_stripped) THEN [outcome |-> "skip", obj |-> NoObject]
    ELSE RowOfValues(hdr, RowValues(line_stripped))

RowOutcome(hdr, line_content) == RowResult(hdr, strip(line_content)).outcome

\* an extractor that gives up on rows once one row was reported
RowEffectStopAtFirstError(acc, entry, hli, line_number, line_stripped, r) ==
    IF acc.diags # <<>> \/ r.outcome = "skip" THEN acc
    ELSE IF r.outcome = "mismatch"
    THEN [acc EXCEPT !.diags = Append(@,
            ColumnCountMismatchMsg(entry, hli, line_number, line_stripped))]
    ELSE IF r.outcome = "invalid"
    THEN [acc EXCEPT !.diags = Append(@,
            RowValidationFailedMsg(entry, hli, line_number, line_stripped))]
    ELSE [acc EXCEPT !.companies = Append(@, r.obj)]

\* the effect of one iteration on the accumulated [companies, diags]
RowEffect(acc, entry, hli, line_number, line_stripped, r) ==
    CASE r.outcome = "skip" -> acc
      [] r.outcome = "mismatch" ->
            [acc EXCEPT !.diags = Append(@,
                ColumnCountMismatchMsg(entry, hli, line_number, line_stripped))]
      [] r.outcome = "invalid" ->
            [acc EXCEPT !.diags = Append(@,
                RowValidationFailedMsg(entry, hli, line_number, line_stripped))]
      [] r.outcome = "append" ->
            [acc EXCEPT !.companies = Append(@, r.obj)]

ProcessStripped(acc, entry, hdr, hli, line_number, line_stripped) ==
    RowEffect(acc, entry, hli, line_number, line_stripped, RowResult(hdr, line_stripped))

\* one iteration of the row loop on the accumulated [companies, diags]
ProcessRow(acc, entry, hdr, hli, line_number, line_content) ==
    ProcessStripped(acc, entry, hdr, hli, line_number, strip(line_content))

\* the row loop from iteration line_number on
RECURSIVE ProcessRows(_, _, _, _, _, _)
ProcessRows(acc, entry, hdr, hli, rows, line_number) ==
    IF line_number >= Len(rows) THEN acc
    ELSE ProcessRows(ProcessRow(acc, entry, hdr, hli, line_number, rows[line_number + 1]),
                     entry, hdr, hli, rows, line_number + 1)

ParseFrom(entry, ls, hli) ==
    IF hli = -1 THEN [companies |-> <<>>, diags |-> <<TableNotFoundMsg>>]
    ELSE IF ~SeparatorPresent(ls, hli)
         THEN [companies |-> <<>>, diags |-> <<SeparatorMissingMsg>>]
    ELSE ProcessRows([companies |-> <<>>, diags |-> <<>>], entry,
                     ParseHeader(ls[hli + 1]), hli, RowLines(ls, hli), 0)

ParseLines(entry, ls) == ParseFrom(entry, ls, FindHeaderLineIndex(ls))

\* the whole function: the returned list and the messages it emitted
parse_markdown_table_to_objects(entry, content) == ParseLines(entry, SplitLines(content))

(***************************************************************************)
(* Input documents                                                         *)
(***************************************************************************)

MaxLines == 3

HeaderFull == <<"|", " ", "C", "o", "m", "p", "a", "n", "y", " ", "|", " ", "C", "o", "m", "p", "a", "n", "y", " ", "W", "e", "b", "s", "i", "t", "e", " ", "|", " ", "S", "h", "o", "r", "t", " ", "D", "e", "s", "c", "r", "i", "p", "t", "i", "o", "n", " ", "|", " ", "T", "a", "g", "s", " ", "|", " ", "L", "o", "c", "a", "t", "i", "o", "n", " ", "|">>
HeaderLinks == <<"|", " ", "C", "o", "m", "p", "a", "n", "y", " ", "|", " ", "S", "h", "o", "r", "t", " ", "D", "e", "s", "c", "r", "i", "p", "t", "i", "o", "n", " ", "|", " ", "Y", "C", " ", "L", "i", "n", "k", " ", "|", " ", "F", "o", "u", "n", "d", "e", "r", " ", "L", "i", "n", "k", " ", "1", " ", "|", " ", "F", "o", "u", "n", "d", "e", "r", " ", "L", "i", "n", "k", " ", "2", " ", "|", " ", "F", "o", "u", "n", "d", "e", "r", " ", "L", "i", "n", "k", " ", "3", " ", "|">>
\* indented, and without a Short Description column
HeaderNoDesc == <<" ", "|", " ", "C", "o", "m", "p", "a", "n", "y", " ", "|", " ", "L", "o", "c", "a", "t", "i", "o", "n", " ", "|">>
SepLine == <<"|", " ", "-", "-", "-", " ", "|", " ", "-", "-", "-", " ", "|">>
\* a dash separator that lacks the blank after the pipe
TightSep == <<"|", "-", "-", "-", "|", "-", "-", "-", "|">>
Title == <<"#", "#", " ", "W", "2", "4">>
BlankLine == <<>>
\* begins with a pipe and does not end with one
RowOpen == <<"|", " ", "D", " ", "|", " ", "e">>
RowA == <<"|", " ", "A", " ", "|", " ", "h", "t", "t", "p", ":", "/", "/", "a", " ", "|", " ", "d", " ", "|", " ", "t", ",", " ", "u", " ", "|", " ", "S", "F", " ", "|">>
RowBadUrl == <<"|", " ", "B", " ", "|", " ", "n", "o", "t", "-", "a", "-", "u", "r", "l", " ", "|", " ", "e", " ", "|", " ", "t", " ", "|", " ", "S", "F", " ", "|">>
\* indented, trailing tab, two cells
RowShort == <<" ", " ", "|", " ", "C", " ", "|", " ", "S", "F", " ", "|", "\t">>

\* cell texts
Cell_A == <<"A">>
Cell_B == <<"B">>
Cell_nan == <<"n", "a", "n">>
Cell_NaN == <<"N", "a", "N">>
Cell_NAN == <<"N", "A", "N">>
Cell_Nan == <<"N", "a", "n">>
Cell_http_a == <<"h", "t", "t", "p", ":", "/", "/", "a">>
Cell_https_b == <<"H", "T", "T", "P", "S", ":", "/", "/", "B", "/", "c">>
Cell_not_a_url == <<"n", "o", "t", "-", "a", "-", "u", "r", "l">>
Cell_ftp == <<"f", "t", "p", ":", "/", "/", "a">>
Cell_d == <<"d">>
Cell_e == <<"e">>
Cell_tags == <<"t", ",", " ", "u">>
Cell_tag == <<"t">>
Cell_SF == <<"S", "F">>
Cell_NY == <<"N", "Y">>

\* the text of a table row with the given cells: "| c1 | c2 | ... |"
RECURSIVE RowCells(_)
RowCells(cells) ==
    IF cells = <<>> THEN <<>>
    ELSE <<" ">> \o Head(cells) \o <<" ", "|">> \o RowCells(Tail(cells))

MkRow(cells) == <<"|">> \o RowCells(cells)

\* all sequences that take their i-th element from pools[i]
RECURSIVE Product(_)
Product(pools) ==
    IF pools = <<>> THEN {<<>>}
    ELSE {<<c>> \o rest : c \in Head(pools), rest \in Product(Tail(pools))}

\* all sequences over S of length at most n
RECURSIVE SeqsUpTo(_, _)
SeqsUpTo(S, n) ==
    IF n = 0 THEN {<<>>}
    ELSE SeqsUpTo(S, n - 1) \cup {Append(q, x) : q \in SeqsUpTo(S, n - 1), x \in S}

CompanyCells == {Cell_A, <<>>, Cell_nan}
UrlCells == {Cell_http_a, <<>>, Cell_NaN, Cell_not_a_url, Cell_ftp}
LinkCells == {Cell_https_b, <<>>, Cell_not_a_url}
DescCells == {Cell_d, <<>>, Cell_NAN}
TagsCells == {Cell_tags, <<>>, Cell_nan}
LocationCells == {Cell_SF, <<>>, Cell_Nan}

\* a header line, the cells its data rows draw from, and two rows around them
Tables ==
    {[header |-> HeaderFull,
      cells |-> <<CompanyCells, UrlCells, DescCells, TagsCells, LocationCells>>,
      first |-> <<Cell_A, Cell_http_a, Cell_d, Cell_tags, Cell_SF>>,
      last |-> <<Cell_B, Cell_https_b, Cell_e, Cell_tag, Cell_NY>>],
     [header |-> HeaderLinks,
      cells |-> <<{Cell_A}, {Cell_d}, LinkCells, LinkCells, LinkCells, LinkCells>>,
      first |-> <<Cell_A, Cell_d, Cell_http_a, Cell_http_a, Cell_http_a, Cell_http_a>>,
      last |-> <<Cell_B, Cell_e, <<>>, <<>>, <<>>, <<>> >>],
     [header |-> HeaderNoDesc,
      cells |-> <<CompanyCells, LocationCells>>,
      first |-> <<Cell_A, Cell_SF>>,
      last |-> <<Cell_B, Cell_NY>>]}

\* any arrangement of a few lines
LinePool ==
    {BlankLine, Title, HeaderFull, SepLine, TightSep, RowA, RowBadUrl, RowShort, RowOpen}
FreeDocs == SeqsUpTo(LinePool, MaxLines)

\* how many cells of row x differ from those of row y
Differences(x, y) == Cardinality({i \in 1..Len(x) : x[i] # y[i]})

\* the rows of table t that differ from its first row in at most two cells, and
\* that row with a cell too many and with a cell too few
MiddleRows(t) ==
    {x \in Product(t.cells) : Differences(x, t.first) <= 2}
        \cup {Append(t.first, Cell_A), Tail(t.first)}

\* one table of three data rows, the middle one ranging over MiddleRows, with
\* and without a blank line before the table
TableDocs ==
    UNION {{lead \o <<t.header, SepLine, MkRow(t.first), MkRow(x), MkRow(t.last)>> :
               lead \in {<<>>, <<BlankLine>>}, x \in MiddleRows(t)} :
           t \in Tables}

\* a table followed by a second table, each of no row or one row
TablePool == {RowA, RowBadUrl, RowShort}
TableRows == {<<>>} \cup {<<r>> : r \in TablePool}
TwoTableDocs ==
    {<<HeaderFull, SepLine>> \o r1 \o <<Title, h2, SepLine>> \o r2 :
        r1 \in TableRows, r2 \in TableRows, h2 \in {HeaderFull, HeaderNoDesc}}

Documents == FreeDocs \cup TableDocs \cup TwoTableDocs

(***************************************************************************)
(* One call of parse_markdown_table_to_objects, step by step               *)
(***************************************************************************)

VARIABLES
    entry,              \* which copy of the function runs
    markdown_content,   \* the argument
    pc,                 \* position in the function body
    lines,
    header_line_index,
    header,
    line_number,        \* the index enumerate() gives the row loop
    companies,          \* the list the function returns
    diags,              \* the messages printed or logged so far
    call,               \* how many calls the process has made, this one included
    returned,           \* what the earlier calls were given and gave back
    caller_pc,          \* position of the caller in the handling of a request
    session_state,      \* what the caller keeps from one request to the next
    effects,            \* what the caller has shown or written for this request
    request,            \* how many requests the caller has taken
    kwargs              \* the keyword arguments of a direct CompanyData(**kwargs)

callerVars == <<caller_pc, session_state, effects, request>>

vars == <<entry, markdown_content, pc, lines, header_line_index, header,
          line_number, companies, diags, kwargs, call, returned,
          caller_pc, session_state, effects, request>>

\* session state initialisation: nothing converted, nothing parsed
SessionStateInit ==
    [markdown_output |-> PyNone, error_message |-> PyNone,
     parsed_companies_json |-> PyNone, num_companies_parsed |-> 0]

\* the function under analysis has been called by a caller on its first request
CalledOnce ==
    /\ caller_pc = "parsing"
    /\ session_state = SessionStateInit
    /\ effects = {}
    /\ request = 1

Init ==
    /\ entry \in EntryPoints
    /\ markdown_content \in {join(doc) : doc \in Documents}
    /\ pc = "start"
    /\ lines = <<>>
    /\ header_line_index = -1
    /\ header = <<>>
    /\ line_number = 0
    /\ companies = <<>>
    /\ diags = <<>>
    /\ call = 1
    /\ kwargs = <<>>
    /\ returned = <<>>
    /\ CalledOnce

\* a start that keeps the list of the call before, as a list shared between
\* calls would be
StartKeepingCompanies ==
    /\ pc = "start"
    /\ lines' = SplitLines(markdown_content)
    /\ header_line_index' = -1
    /\ pc' = "find_header"
    /\ UNCHANGED callerVars
    /\ UNCHANGED <<kwargs, call, returned, entry, markdown_content, header, line_number,
                   diags, companies>>

\* lines 58-60
Start ==
    /\ pc = "start"
    /\ lines' = SplitLines(markdown_content)
    /\ companies' = <<>>
    /\ header_line_index' = -1
    /\ pc' = "find_header"
    /\ UNCHANGED callerVars
    /\ UNCHANGED <<kwargs, call, returned, entry, markdown_content, header, line_number, diags>>

\* the scan found no header: report and return
HeaderNotFound ==
    /\ pc = "find_header"
    /\ FindHeaderLineIndex(lines) = -1
    /\ diags' = Append(diags, TableNotFoundMsg)
    /\ pc' = "done"
    /\ UNCHANGED callerVars
    /\ UNCHANGED <<kwargs, call, returned, entry, markdown_content, lines, header_line_index, header,
                   line_number, companies>>

\* the scan breaks at the first header line, which is then parsed
HeaderFound ==
    /\ pc = "find_header"
    /\ FindHeaderLineIndex(lines) # -1
    /\ header_line_index' = FindHeaderLineIndex(lines)
    /\ header' = ParseHeader(lines[header_line_index' + 1])
    /\ pc' = "check_separator"
    /\ UNCHANGED callerVars
    /\ UNCHANGED <<kwargs, call, returned, entry, markdown_content, lines, line_number, companies, diags>>

SeparatorMissing ==
    /\ pc = "check_separator"
    /\ ~SeparatorPresent(lines, header_line_index)
    /\ diags' = Append(diags, SeparatorMissingMsg)
    /\ pc' = "done"
    /\ UNCHANGED callerVars
    /\ UNCHANGED <<kwargs, call, returned, entry, markdown_content, lines, header_line_index, header,
                   line_number, companies>>

SeparatorFound ==
    /\ pc = "check_separator"
    /\ SeparatorPresent(lines, header_line_index)
    /\ line_number' = 0
    /\ pc' = "rows"
    /\ UNCHANGED callerVars
    /\ UNCHANGED <<kwargs, call, returned, entry, markdown_content, lines, header_line_index, header,
                   companies, diags>>

\* one iteration of the row loop, by its outcome
RowStepTo(outcome, r, acc) ==
    /\ r = outcome
    /\ companies' = acc.companies
    /\ diags' = acc.diags
    /\ pc' = AfterRow(outcome)

RowStepOn(outcome, line_content) ==
    RowStepTo(outcome, RowOutcome(header, line_content),
              ProcessRow([companies |-> companies, diags |-> diags], entry,
                         header, header_line_index, line_number, line_content))

RowStep(outcome) ==
    /\ line_number < Len(RowLines(lines, header_line_index))
    /\ RowStepOn(outcome, RowLines(lines, header_line_index)[line_number + 1])
    /\ line_number' = line_number + 1
    /\ UNCHANGED callerVars
    /\ UNCHANGED <<kwargs, call, returned, entry, markdown_content, lines, header_line_index, header>>

\* the line is no table row: continue
SkipLine ==
    /\ pc = "rows"
    /\ RowStep("skip")

\* len(values) != len(header): report and continue
ColumnCountMismatch ==
    /\ pc = "rows"
    /\ RowStep("mismatch")

\* CompanyData(**row_data) raised ValidationError: report and go on
RowValidationFailed ==
    /\ pc = "rows"
    /\ RowStep("invalid")

\* companies.append(company)
AppendCompany ==
    /\ pc = "rows"
    /\ RowStep("append")

\* the loop is exhausted: return companies
Return ==
    /\ pc = "rows"
    /\ line_number >= Len(RowLines(lines, header_line_index))
    /\ pc' = "done"
    /\ UNCHANGED callerVars
    /\ UNCHANGED <<kwargs, call, returned, entry, markdown_content, lines, header_line_index, header,
                   line_number, companies, diags>>

Next ==
    \/ Start
    \/ HeaderNotFound
    \/ HeaderFound
    \/ SeparatorMissing
    \/ SeparatorFound
    \/ SkipLine
    \/ ColumnCountMismatch
    \/ RowValidationFailed
    \/ AppendCompany
    \/ Return

Spec == Init /\ [][Next]_vars

\* control moving on from one statement of the body to the next: into the
\* header scan, out of it, past the separator test, round the loop or out of it
Tick ==
    \/ pc = "start" /\ pc' = "find_header" /\ line_number' = line_number
    \/ pc = "find_header" /\ pc' \in {"check_separator", "done"} /\ line_number' = line_number
    \/ pc = "check_separator" /\ pc' \in {"rows", "done"} /\ line_number' = line_number
    \/ pc = "rows" /\ pc' \in {"rows", "raised"} /\ line_number' = line_number + 1
    \/ pc = "rows" /\ pc' = "done" /\ line_number' = line_number

\* the interpreter keeps executing the function body: control never stops
\* between two statements
FairSpec == Spec /\ WF_<<pc, line_number>>(Tick)


(***************************************************************************)
(* A process calling parse_markdown_table_to_objects several times         *)
(***************************************************************************)

MaxCalls == 3

\* the texts the calls of one process are given
SessionTexts ==
    {join(<<HeaderFull, SepLine, RowA, Title, RowBadUrl>>),
     join(<<BlankLine, HeaderFull, SepLine,
            MkRow(<<Cell_B, Cell_https_b, Cell_e, Cell_tag, Cell_NY>>), RowShort>>),
     join(<<HeaderNoDesc, SepLine, MkRow(<<Cell_A, Cell_SF>>)>>),
     join(<<Title, RowA>>),
     join(<<HeaderFull, TightSep, RowA>>)}

SessionInit ==
    /\ entry \in EntryPoints
    /\ markdown_content \in SessionTexts
    /\ pc = "start"
    /\ lines = <<>>
    /\ header_line_index = -1
    /\ header = <<>>
    /\ line_number = 0
    /\ companies = <<>>
    /\ diags = <<>>
    /\ call = 1
    /\ kwargs = <<>>
    /\ returned = <<>>
    /\ CalledOnce

\* the caller calls the function again: a new frame is entered with a new
\* argument, and nothing of the frame is initialised before line 58 runs
Call ==
    /\ pc = "done"
    /\ call < MaxCalls
    /\ call' = call + 1
    /\ returned' = Append(returned, [text |-> markdown_content,
                                     companies |-> companies, diags |-> diags])
    /\ markdown_content' \in SessionTexts
    /\ pc' = "start"
    /\ diags' = <<>>
    /\ UNCHANGED callerVars
    /\ UNCHANGED <<kwargs, entry, lines, header_line_index, header, line_number, companies>>

SessionNext ==
    \/ Next
    \/ Call

SessionSpec == SessionInit /\ [][SessionNext]_vars


(***************************************************************************)
(* The callers: interactive_input_loop and the Streamlit script            *)
(***************************************************************************)

MaxRequests == 2

\* Python truth of None, a str or a list
Truthy(v) == v.t # "NoneType" /\ v.v # <<>>

\* json.dumps / json.dump of the dumped models: the document of these records
JsonOf(cs) == [t |-> "json", v |-> cs]

\* what a conversion leaves as Markdown: a text, the empty text, or nothing
\* at all when it failed
ConversionResults == {PyStr(x) : x \in SessionTexts} \cup {PyStr(<<>>), PyNone}

\* something shown to the user or written for the request being handled
Shown(kind, body, n) == [kind |-> kind, body |-> body, n |-> n]

\* a handler that keeps the session values of the request before
KeptOnConvert(e, s) == s

\* what a new request starts from: the Streamlit handler clears the four
\* session values (lines 201-204); the loop rebinds its local (line 152) and
\* leaves the file companies_output.json on the disk
ClearedOnConvert(e, s) ==
    IF e = "streamlit_markitdown_app" THEN SessionStateInit
    ELSE [s EXCEPT !.markdown_output = PyNone]

\* the conversion of a request: the agent's answer, or convert_uri
Convert ==
    /\ caller_pc = "idle"
    /\ request < MaxRequests
    /\ request' = request + 1
    /\ effects' = {}
    /\ \E md \in ConversionResults :
          session_state' =
              [ClearedOnConvert(entry, session_state) EXCEPT
                  !.markdown_output = md,
                  !.error_message =
                      IF md = PyNone /\ entry = "streamlit_markitdown_app"
                      THEN PyStr(<<"e">>) ELSE PyNone]
    /\ caller_pc' = "converted"
    /\ UNCHANGED <<entry, markdown_content, pc, lines, header_line_index, header,
                   line_number, companies, diags, kwargs, call, returned>>

\* there is no Markdown to parse
NoMarkdown ==
    /\ caller_pc = "converted"
    /\ ~Truthy(session_state.markdown_output)
    /\ effects' = effects \cup {Shown("notice", <<>>, 0)}
    /\ caller_pc' = "handled"
    /\ UNCHANGED <<entry, markdown_content, pc, lines, header_line_index, header,
                   line_number, companies, diags, kwargs, call, returned, session_state,
                   request>>

\* parse_markdown_table_to_objects is called on the Markdown
CallParse ==
    /\ caller_pc = "converted"
    /\ Truthy(session_state.markdown_output)
    /\ markdown_content' = session_state.markdown_output.v
    /\ pc' = "start"
    /\ diags' = <<>>
    /\ caller_pc' = "parsing"
    /\ UNCHANGED <<entry, lines, header_line_index, header, line_number, companies,
                   kwargs, call, returned, session_state, effects, request>>

\* the list returned is not empty: the JSON document is written (the loop) or
\* kept in the session with its count (Streamlit)
SaveJson ==
    /\ caller_pc = "parsing"
    /\ pc = "done"
    /\ companies # <<>>
    /\ session_state' = [session_state EXCEPT
                            !.parsed_companies_json = JsonOf(companies),
                            !.num_companies_parsed = Len(companies)]
    /\ effects' = effects \cup
          (IF entry = "camel_markitdown_client"
           THEN {Shown("json_written", <<>>, Len(companies))} ELSE {})
    /\ caller_pc' = "handled"
    /\ UNCHANGED <<entry, markdown_content, pc, lines, header_line_index, header,
                   line_number, companies, diags, kwargs, call, returned, request>>

\* the list returned is empty: the loop prints the raw Markdown, the Streamlit
\* handler a notice
NoCompanies ==
    /\ caller_pc = "parsing"
    /\ pc = "done"
    /\ companies = <<>>
    /\ effects' = effects \cup
          (IF entry = "camel_markitdown_client"
           THEN {Shown("raw_markdown", rstrip(session_state.markdown_output.v), 0)}
           ELSE {Shown("notice", <<>>, 0)})
    /\ caller_pc' = "handled"
    /\ UNCHANGED <<entry, markdown_content, pc, lines, header_line_index, header,
                   line_number, companies, diags, kwargs, call, returned, session_state,
                   request>>

\* the output section of the Streamlit script, drawn from the session values
OutputSection(s) ==
    (IF Truthy(s.error_message) /\ ~Truthy(s.markdown_output)
     THEN {Shown("error", <<>>, 0)} ELSE {})
    \cup (IF Truthy(s.parsed_companies_json)
          THEN {Shown("json_shown", <<>>, s.num_companies_parsed)} ELSE {})
    \cup (IF Truthy(s.markdown_output)
          THEN {Shown("raw_markdown", s.markdown_output.v, 0)} ELSE {})

\* the request ends: the Streamlit script draws its output section; the loop
\* goes back to its prompt
Display ==
    /\ caller_pc = "handled"
    /\ effects' = effects \cup
          (IF entry = "streamlit_markitdown_app" THEN OutputSection(session_state)
           ELSE {})
    /\ caller_pc' = "idle"
    /\ UNCHANGED <<entry, markdown_content, pc, lines, header_line_index, header,
                   line_number, companies, diags, kwargs, call, returned, session_state,
                   request>>

CallerInit ==
    /\ entry \in EntryPoints
    /\ markdown_content = <<>>
    /\ pc = "idle"
    /\ lines = <<>>
    /\ header_line_index = -1
    /\ header = <<>>
    /\ line_number = 0
    /\ companies = <<>>
    /\ diags = <<>>
    /\ call = 1
    /\ kwargs = <<>>
    /\ returned = <<>>
    /\ caller_pc = "idle"
    /\ session_state = SessionStateInit
    /\ effects = {}
    /\ request = 0

CallerNext ==
    \/ Convert
    \/ NoMarkdown
    \/ CallParse
    \/ Next
    \/ SaveJson
    \/ NoCompanies
    \/ Display

CallerSpec == CallerInit /\ [][CallerNext]_vars


(***************************************************************************)
(* CompanyData constructed directly, Tags given as a str or as a list      *)
(***************************************************************************)

MaxTags == 3

TagItems == {<<"a", "i">>, <<" ", "b", " ">>, <<" ">>, <<>>, NAN}

\* the items of q with commas between them
RECURSIVE CommaJoined(_)
CommaJoined(q) ==
    IF Len(q) = 1 THEN q[1] ELSE q[1] \o <<",">> \o CommaJoined(Tail(q))

Example_ai_fintech_saas == <<"a", "i", ",", " ", "f", "i", "n", "t", "e", "c", "h", " ", ",", " ", "s", "a", "a", "s">>

TagStrings ==
    {CommaJoined(q) : q \in SeqsUpTo(TagItems, MaxTags) \ {<<>>}}
        \cup {Example_ai_fintech_saas, Cell_NaN, Cell_NAN, Cell_Nan, Cell_tags}

\* what Tags is given as: a str, a list of str, or None
TagsInputs ==
    {PyStr(s) : s \in TagStrings}
        \cup {PyList(q) : q \in SeqsUpTo(TagItems, MaxTags)}
        \cup {PyNone}

KwargsWith(v) ==
    [h \in {F_Company, F_Short_Description, F_Tags} |->
        IF h = F_Tags THEN v ELSE IF h = F_Company THEN PyStr(Cell_A) ELSE PyStr(Cell_d)]

TagsInit ==
    /\ entry \in EntryPoints
    /\ markdown_content = <<>>
    /\ pc = "idle"
    /\ lines = <<>>
    /\ header_line_index = -1
    /\ header = <<>>
    /\ line_number = 0
    /\ companies = <<>>
    /\ diags = <<>>
    /\ call = 1
    /\ kwargs = <<>>
    /\ returned = <<>>
    /\ CalledOnce

\* the keyword arguments are put together
Supply ==
    /\ pc = "idle"
    /\ \E v \in TagsInputs : kwargs' = KwargsWith(v)
    /\ pc' = "construct"
    /\ UNCHANGED callerVars
    /\ UNCHANGED <<entry, markdown_content, lines, header_line_index, header,
                   line_number, companies, diags, call, returned>>

\* CompanyData(**kwargs): the object, when validation raises nothing
Construct ==
    /\ pc = "construct"
    /\ companies' = IF CompanyData(kwargs).errors = {}
                    THEN <<CompanyData(kwargs).obj>> ELSE <<>>
    /\ pc' = "constructed"
    /\ UNCHANGED callerVars
    /\ UNCHANGED <<kwargs, entry, markdown_content, lines, header_line_index, header,
                   line_number, diags, call, returned>>

TagsNext ==
    \/ Supply
    \/ Construct

TagsSpec == TagsInit /\ [][TagsNext]_vars

Done == pc = "done"

(***************************************************************************)
(* The document as the caller wrote it, for stating properties             *)
(***************************************************************************)

\* the lines of the argument, untouched
SourceLines == split(markdown_content, "\n")

Trimmed(l) == strip(l)

\* 1-based position in S of the first line that, trimmed, begins with
\* "| Company |"; 0 when there is none
HeaderIn(S) ==
    IF \E i \in 1..Len(S) : startswith(Trimmed(S[i]), HEADER_MARKER)
    THEN CHOOSE k \in 1..Len(S) :
             /\ startswith(Trimmed(S[k]), HEADER_MARKER)
             /\ \A j \in 1..(k - 1) : ~startswith(Trimmed(S[j]), HEADER_MARKER)
    ELSE 0

\* line h of S is followed by a line that, trimmed, begins with "| ---"
SeparatorAfter(S, h) ==
    /\ h > 0
    /\ h < Len(S)
    /\ startswith(Trimmed(S[h + 1]), SEPARATOR_MARKER)

\* a line that, trimmed, starts and ends with a pipe
PipeDelimited(l) == startswith(Trimmed(l), <<"|">>) /\ endswith(Trimmed(l), <<"|">>)

PerRowKinds == {"ColumnCountMismatch", "RowValidationFailed"}

Kinds(ds) == {ds[i].kind : i \in 1..Len(ds)}

(***************************************************************************)
(* Properties                                                              *)
(***************************************************************************)

C1_On(S) ==
    HeaderIn(S) = 0 =>
        /\ companies = <<>>
        /\ pc \in {"find_header", "done"}
        /\ pc = "done" => diags = <<TableNotFoundMsg>>

\* C1: a document in which no line, trimmed, begins with "| Company |" never
\* gets past the header scan; the call returns an empty list and has emitted
\* exactly one message, of kind TableNotFound.
C1_NoHeaderTableNotFound == pc # "start" => C1_On(SourceLines)

C1_Witness ==
    /\ pc = "done"
    /\ diags = <<TableNotFoundMsg>>
    /\ HeaderIn(SourceLines) = 0
    /\ \E i \in 1..Len(SourceLines) : SourceLines[i] = RowA
    /\ \E i \in 1..Len(SourceLines) : SourceLines[i] = SepLine

C2_At(S, h) ==
    /\ (h > 0 /\ ~SeparatorAfter(S, h)) =>
            /\ companies = <<>>
            /\ pc # "rows"
            /\ pc = "done" => diags = <<SeparatorMissingMsg>>
    /\ (SeparatorAfter(S, h) /\ pc = "rows"
            /\ line_number < Len(RowLines(lines, header_line_index))) =>
            /\ h + 2 + line_number <= Len(S)
            /\ Trimmed(RowLines(lines, header_line_index)[line_number + 1])
                 = Trimmed(S[h + 2 + line_number])
    /\ (SeparatorAfter(S, h) /\ pc = "done") => "SeparatorMissing" \notin Kinds(diags)

C2_On(S) == C2_At(S, HeaderIn(S))

\* C2: with a header line whose next line is absent or does not, trimmed, begin
\* with "| ---", the call returns no records and exactly one SeparatorMissing
\* message, whatever follows; with a separator there, iteration number
\* line_number of the row loop is at the source line line_number places after
\* the line that follows the separator, beginning right after the separator.
C2_SeparatorGate == pc \in {"rows", "done"} => C2_On(SourceLines)

C2_WitnessAt(S, h) ==
    /\ h > 0
    /\ ~SeparatorAfter(S, h)
    /\ \E i \in (h + 1)..Len(S) : S[i] = RowA

C2_WitnessOn(S) == C2_WitnessAt(S, HeaderIn(S))

C2_Witness ==
    /\ pc = "done"
    /\ diags = <<SeparatorMissingMsg>>
    /\ C2_WitnessOn(SourceLines)

\* how many of the n lines of S after line sep are pipe-delimited
PipeLinesAfter(S, sep, n) ==
    Cardinality({i \in (sep + 1)..(sep + n) : PipeDelimited(S[i])})

C3_At(S, h) ==
    SeparatorAfter(S, h) =>
        /\ Len(companies) + Len(diags) =
              PipeLinesAfter(S, h + 1,
                             IF pc = "done" THEN Len(S) - (h + 1) ELSE line_number)
        /\ Kinds(diags) \subseteq PerRowKinds

C3_On(S) == C3_At(S, HeaderIn(S))

\* C3: past a valid header and separator, the records plus the messages so far
\* number exactly the pipe-delimited source lines the loop has gone through, the
\* messages all being per-row ones; at return that is every pipe-delimited line
\* from the separator to the end of the document.
C3_PartialSuccessAccounting == pc \in {"rows", "done"} => C3_On(SourceLines)

C3_WitnessAt(S, h) ==
    /\ SeparatorAfter(S, h)
    /\ \E i \in (h + 2)..(Len(S) - 1) : ~PipeDelimited(S[i])

C3_WitnessOn(S) == C3_WitnessAt(S, HeaderIn(S))

C3_Witness ==
    /\ pc = "done"
    /\ Len(companies) >= 1
    /\ Kinds(diags) = PerRowKinds
    /\ C3_WitnessOn(SourceLines)

C4_Step(S, h) ==
    Len(diags') = Len(diags) + 1 =>
        /\ diags'[Len(diags')].line = h + 2 + line_number
        /\ diags'[Len(diags')].text = Trimmed(S[h + 2 + line_number])

C4_StepOn(S) == C4_Step(S, HeaderIn(S))

\* C4: whenever an iteration of the row loop emits a message (ColumnCountMismatch
\* or RowValidationFailed), in either copy of the function, the message carries
\* the 1-based number, in the document passed in, of the line the iteration is
\* at, and that line's text.
C4_DiagnosticsCarrySourceLine == [][pc = "rows" => C4_StepOn(SourceLines)]_vars

\* the first line after line h of S that, trimmed, begins with "| Company |"; 0 if none
NextHeaderIn(S, h) ==
    IF \E i \in (h + 1)..Len(S) : startswith(Trimmed(S[i]), HEADER_MARKER)
    THEN CHOOSE k \in (h + 1)..Len(S) :
             /\ startswith(Trimmed(S[k]), HEADER_MARKER)
             /\ \A j \in (h + 1)..(k - 1) : ~startswith(Trimmed(S[j]), HEADER_MARKER)
    ELSE 0

\* S holds a table at line h and a second one at line h2
TwoTables(S, h, h2) ==
    /\ SeparatorAfter(S, h)
    /\ h2 > 0
    /\ SeparatorAfter(S, h2)
    /\ \E i \in (h2 + 2)..Len(S) : PipeDelimited(S[i])

C5_At(S, h, h2) ==
    TwoTables(S, h, h2) =>
        companies = parse_markdown_table_to_objects(entry, join(SubSeq(S, 1, h2 - 1))).companies

C5_From(S, h) == C5_At(S, h, NextHeaderIn(S, h))

C5_On(S) == C5_From(S, HeaderIn(S))

\* C5: when a second table (header, separator, data rows) follows the first, the
\* records returned are exactly those of the document cut before the second
\* header: no line of the second table contributes a record.
C5_SecondTableIgnored == pc = "done" => C5_On(SourceLines)

\* what the extractor makes of line l alone under the table head (the lines of
\* the document up to the separator)
Single(head, l) == parse_markdown_table_to_objects(entry, join(Append(head, l)))

DiagView(ds) == [i \in 1..Len(ds) |-> <<ds[i].kind, ds[i].text>>]

\* result a followed by result b
Joined(a, b) == [companies |-> a.companies \o b.companies, diags |-> a.diags \o b.diags]

Viewed(r) == [companies |-> r.companies, diags |-> DiagView(r.diags)]

\* the records and the messages of the lines rows taken one at a time, in order
RECURSIVE OneByOne(_, _)
OneByOne(head, rows) ==
    IF rows = <<>> THEN [companies |-> <<>>, diags |-> <<>>]
    ELSE Joined(Viewed(Single(head, Head(rows))), OneByOne(head, Tail(rows)))

\* result r is, row for row and in order, what each line of rows gives alone
RowWise(r, head, rows) == Viewed(r) = OneByOne(head, rows)

\* S with line p replaced by l, and S without line p
Replaced(S, p, l) == [S EXCEPT ![p] = l]
Deleted(S, p) == SubSeq(S, 1, p - 1) \o SubSeq(S, p + 1, Len(S))

RowWiseDoc(S, h) ==
    RowWise(parse_markdown_table_to_objects(entry, join(S)),
            SubSeq(S, 1, h + 1), SubSeq(S, h + 2, Len(S)))

\* lines to put in the place of a row
Replacements == {BlankLine, Title, HeaderFull, RowA, RowBadUrl, RowShort}

C6_At(S, h) ==
    SeparatorAfter(S, h) =>
        /\ RowWise([companies |-> companies, diags |-> diags],
                   SubSeq(S, 1, h + 1), SubSeq(S, h + 2, Len(S)))
        /\ \A p \in (h + 2)..Len(S) :
              /\ RowWiseDoc(Deleted(S, p), h)
              /\ \A l \in Replacements : RowWiseDoc(Replaced(S, p, l), h)

C6_On(S) == C6_At(S, HeaderIn(S))

\* C6: under a valid header and separator the result is made row by row: the
\* records and the messages (kind and row text) are, in order, those each line
\* after the separator gives when it is the only line after the separator; and
\* the same holds of the document with any one of those lines deleted or
\* replaced by another line.  So the outcome of a row, and the order of the
\* records, do not depend on what the other rows are.
C6_RowIndependence == pc = "done" => C6_On(SourceLines)

C6_WitnessAt(S, h) ==
    /\ SeparatorAfter(S, h)
    /\ Len(S) >= h + 4

C6_WitnessOn(S) == C6_WitnessAt(S, HeaderIn(S))

C6_Witness ==
    /\ pc = "done"
    /\ Len(companies) >= 2
    /\ companies[1] # companies[2]
    /\ diags # <<>>
    /\ C6_WitnessOn(SourceLines)

\* the row loop is at a line, which this step consumes
AtRow == pc = "rows" /\ line_number < Len(RowLines(lines, header_line_index))

\* the cells of the line the row loop is at
CurrentValues == RowValues(strip(RowLines(lines, header_line_index)[line_number + 1]))

\* this step appends record obj and emits nothing
Appends(obj) == companies' = Append(companies, obj) /\ diags' = diags

\* this step appends nothing and emits one RowValidationFailed message
Rejects ==
    /\ companies' = companies
    /\ Len(diags') = Len(diags) + 1
    /\ diags'[Len(diags')].kind = "RowValidationFailed"

\* column i is the one that decides the field named hdr[i]
Deciding(hdr, i) == \A j \in (i + 1)..Len(hdr) : hdr[j] # hdr[i]

\* mapping d without key k
Without(d, k) == [x \in DOMAIN d \ {k} |-> d[x]]

\* this step does what constructing from mapping d does
StepAsConstructed(c) ==
    IF c.errors = {} THEN Appends(c.obj) ELSE Rejects

C7_Step(hdr, values) ==
    Len(values) = Len(hdr) =>
        \A i \in 1..Len(hdr) :
            (lower(values[i]) = NAN /\ Deciding(hdr, i)) =>
                StepAsConstructed(CompanyData(Without(RowData(hdr, values), hdr[i])))

\* C7: a row step on a row of the right length in which the cell of a field
\* (whichever field: required, URL, Tags, Location), trimmed, is "nan" in any
\* letter case does exactly what constructing the record from the mapping
\* without that field does: it appends the very same record, or it rejects the
\* row with a RowValidationFailed message.
C7_NanIsOmission == [][AtRow => C7_Step(header, CurrentValues)]_vars

C7_WitnessAt(S, h) ==
    /\ SeparatorAfter(S, h)
    /\ Len(S) = h + 4
    /\ S[h + 3] = MkRow(<<Cell_A, Cell_http_a, Cell_d, Cell_nan, Cell_Nan>>)

C7_WitnessOn(S) == C7_WitnessAt(S, HeaderIn(S))

C7_Witness ==
    /\ pc = "done"
    /\ Len(companies) = 3
    /\ companies[2].Location = PyNone
    /\ companies[2].Tags = PyNone
    /\ C7_WitnessOn(SourceLines)

\* the fields in which an empty cell is to give an absent value
EmptyToAbsent ==
    {"Company_Website", "YC_Link", "Founder_Link_1", "Founder_Link_2", "Founder_Link_3",
     "Location"}

\* C8: no record holds an empty string in a URL field or in Location: the value
\* is absent or it is not empty.
C8_EmptyCellsAbsent ==
    \A i \in 1..Len(companies) :
        \A k \in EmptyToAbsent :
            companies[i][k] = PyNone \/ companies[i][k].v # <<>>

Letters == DOMAIN LowerOf \cup {LowerOf[c] : c \in DOMAIN LowerOf}

\* s reads scheme://host...: a scheme of letters, "://", and a host
AbsoluteUrl(s) ==
    \E c \in 2..(Len(s) - 3) :
        /\ \A j \in 1..(c - 1) : s[j] \in Letters
        /\ s[c] = ":" /\ s[c + 1] = "/" /\ s[c + 2] = "/"
        /\ s[c + 3] \notin Whitespace \cup {"/"}

\* some URL field of the row holds text that is no URL (and is neither empty
\* nor the sentinel)
HoldsBadUrl(hdr, values) ==
    \E i \in 1..Len(hdr) :
        /\ hdr[i] \in UrlFields
        /\ Deciding(hdr, i)
        /\ values[i] # <<>>
        /\ lower(values[i]) # NAN
        /\ ~AbsoluteUrl(values[i])

C9_Step(hdr, values) ==
    (Len(values) = Len(hdr) /\ HoldsBadUrl(hdr, values)) =>
        /\ Rejects
        /\ pc' = "rows"
        /\ line_number' = line_number + 1

UrlFieldNames == EmptyToAbsent \ {"Location"}

\* every URL field of record c is absent or a URL
UrlsValid(c) ==
    \A k \in UrlFieldNames :
        c[k] = PyNone \/ (c[k].t = "HttpUrl" /\ AbsoluteUrl(c[k].v))

\* every line of rows that gives a record when alone under head has it in companies
ValidRowsKept(head, rows) ==
    \A i \in 1..Len(rows) :
        \A j \in 1..Len(Single(head, rows[i]).companies) :
            \E n \in 1..Len(companies) : companies[n] = Single(head, rows[i]).companies[j]

C9_DoneAt(S, h) ==
    SeparatorAfter(S, h) => ValidRowsKept(SubSeq(S, 1, h + 1), SubSeq(S, h + 2, Len(S)))

C9_DoneOn(S) == C9_DoneAt(S, HeaderIn(S))

C9_State ==
    /\ \A i \in 1..Len(companies) : UrlsValid(companies[i])
    /\ pc = "done" => C9_DoneOn(SourceLines)

\* C9: a row step on a row of the right length one of whose URL fields holds
\* text that is not empty, not "nan" and not an absolute URL appends nothing,
\* emits one RowValidationFailed message and leaves the loop running; at return
\* every row that is valid on its own has its record in the list; and every
\* record ever in the list has each URL field absent or an absolute URL.
C9_NoPartiallyValidRecord ==
    /\ []C9_State
    /\ [][AtRow => C9_Step(header, CurrentValues)]_vars

C9_WitnessAt(S, h) ==
    /\ SeparatorAfter(S, h)
    /\ Len(S) = h + 4
    /\ S[h + 3] = MkRow(<<Cell_A, Cell_not_a_url, Cell_d, Cell_tags, Cell_SF>>)

C9_WitnessOn(S) == C9_WitnessAt(S, HeaderIn(S))

C9_Witness ==
    /\ pc = "done"
    /\ Len(companies) = 2
    /\ Kinds(diags) = {"RowValidationFailed"}
    /\ C9_WitnessOn(SourceLines)

\* the required field name has no column in the row, or its cell is empty or
\* the sentinel
RequiredMissing(hdr, values, name) ==
    \/ \A i \in 1..Len(hdr) : hdr[i] # name
    \/ \E i \in 1..Len(hdr) :
          /\ hdr[i] = name
          /\ Deciding(hdr, i)
          /\ (values[i] = <<>> \/ lower(values[i]) = NAN)

C10_Step(hdr, values) ==
    (/\ Len(values) = Len(hdr)
     /\ \/ RequiredMissing(hdr, values, F_Company)
        \/ RequiredMissing(hdr, values, F_Short_Description)) => Rejects

\* C10: a row step on a row of the right length in which Company or
\* Short_Description is missing (no such column, an empty cell, or the
\* sentinel) appends no record and emits exactly one RowValidationFailed
\* message.
C10_RequiredFieldsEnforced == [][AtRow => C10_Step(header, CurrentValues)]_vars

\* the segments segs put back between pipes
RECURSIVE Piped(_)
Piped(segs) ==
    IF Len(segs) <= 1 THEN (IF segs = <<>> THEN <<>> ELSE segs[1])
    ELSE segs[1] \o <<"|">> \o Piped(Tail(segs))

\* line l with its n cells rearranged by p (cell i of the result is cell p[i]
\* of l); a line that is no row of n cells is left as it is
PermutedSegs(segs, n, p) ==
    IF Len(segs) = n + 2
    THEN Piped(<<segs[1]>> \o [i \in 1..n |-> segs[p[i] + 1]] \o <<segs[n + 2]>>)
    ELSE Piped(segs)

PermutedLine(l, n, p) == IF PipeDelimited(l) THEN PermutedSegs(split(l, "|"), n, p) ELSE l

\* S with the columns of the header line h and of every later line permuted
PermutedDoc(S, h, n, p) ==
    [i \in 1..Len(S) |-> IF i >= h THEN PermutedLine(S[i], n, p) ELSE S[i]]

Transposition(n, a, b) ==
    [i \in 1..n |-> IF i = a THEN b ELSE IF i = b THEN a ELSE i]

\* permutations of columns from..n that generate all of them and more: every
\* transposition, the rotation and the reversal
ColumnPermutations(from, n) ==
    {Transposition(n, a, b) : a \in from..n, b \in from..n}
        \cup {[i \in 1..n |-> IF i < from THEN i ELSE IF i = n THEN from ELSE i + 1],
              [i \in 1..n |-> IF i < from THEN i ELSE n + from - i]}

SameRecordsPermuted(S, h, n, from) ==
    \A p \in ColumnPermutations(from, n) :
        parse_markdown_table_to_objects(entry, join(PermutedDoc(S, h, n, p))).companies
            = companies

DistinctNames(hdr) == \A i, j \in 1..Len(hdr) : hdr[i] = hdr[j] => i = j

\* the trimmed cell with every space made an underscore
Canonical(cell) == [i \in 1..Len(cell) |-> IF cell[i] = " " THEN "_" ELSE cell[i]]

CanonicalNames(l) ==
    [i \in 1..(Len(split(l, "|")) - 2) |-> Canonical(Trimmed(split(l, "|")[i + 1]))]

C11_OriginalAt(S, h) ==
    SeparatorAfter(S, h) => SameRecordsPermuted(S, h, Len(header), 1)

C11_OriginalOn(S) == C11_OriginalAt(S, HeaderIn(S))

\* C11 as stated: permuting the columns of the header and of every data row by
\* any permutation, one that moves the first column included, leaves the
\* returned records unchanged.
C11_AnyColumnPermutation == pc = "done" => C11_OriginalOn(SourceLines)

C11_At(S, h) ==
    /\ (h > 0 /\ pc \notin {"start", "find_header"}) => header = CanonicalNames(S[h])
    /\ (pc = "done" /\ SeparatorAfter(S, h) /\ DistinctNames(header)) =>
            SameRecordsPermuted(S, h, Len(header), 2)

C11_On(S) == C11_At(S, HeaderIn(S))

\* C11 (amended): the header names are the trimmed header cells with every
\* space made an underscore; and when these names are distinct, permuting the
\* columns after the first (Company, which the header marker pins to column 1)
\* in the header line and in every row leaves the returned records unchanged.
C11_MappingByHeaderName == C11_On(SourceLines)

C11_WitnessAt(S, h) ==
    /\ SeparatorAfter(S, h)
    /\ Len(header) >= 5
    /\ \E p \in ColumnPermutations(2, Len(header)) :
          PermutedDoc(S, h, Len(header), p)[h + 2] # S[h + 2]

C11_WitnessOn(S) == C11_WitnessAt(S, HeaderIn(S))

C11_Witness ==
    /\ pc = "done"
    /\ Len(companies) = 3
    /\ companies[1] # companies[2]
    /\ C11_WitnessOn(SourceLines)

C12_RowHandled ==
    (pc = "rows" /\ line_number < Len(RowLines(lines, header_line_index))) =>
        RowOutcome(header, RowLines(lines, header_line_index)[line_number + 1])
            \in {"skip", "mismatch", "invalid", "append"}

\* C12: whatever lines follow the separator, and whatever the text, every line
\* of the loop ends in one of the handled outcomes, the call never leaves the
\* function with an exception, and it always ends by returning.
C12_TotalOnMalformedRows ==
    /\ [](pc # "raised")
    /\ []C12_RowHandled
    /\ <>(pc = "done")

C12_WitnessAt(S, h) == SeparatorAfter(S, h) /\ \E i \in (h + 2)..Len(S) : ~PipeDelimited(S[i])

C12_WitnessOn(S) == C12_WitnessAt(S, HeaderIn(S))

C12_Witness ==
    /\ pc = "done"
    /\ "RowValidationFailed" \in Kinds(diags)
    /\ "ColumnCountMismatch" \in Kinds(diags)
    /\ C12_WitnessOn(SourceLines)

C13_SameAsEarlier ==
    \A i \in 1..Len(returned) :
        returned[i].text = markdown_content =>
            /\ returned[i].companies = companies
            /\ returned[i].diags = diags

C13_OnlyThisText ==
    [companies |-> companies, diags |-> diags]
        = parse_markdown_table_to_objects(entry, markdown_content)

\* C13: when a call returns, its records and messages are those of its text
\* alone, whatever calls came before: they equal what every earlier call of
\* the process on the same text gave, and no record of an earlier call on
\* another text is among them.
C13_IdempotentStateless == pc = "done" => (C13_SameAsEarlier /\ C13_OnlyThisText)

C13_Witness ==
    /\ pc = "done"
    /\ call = 3
    /\ returned[1].text = markdown_content
    /\ returned[2].text # markdown_content
    /\ returned[2].companies # <<>>
    /\ companies # <<>>
    /\ diags # <<>>

\* the request just handled converted to Markdown and extraction gave no record
C14_Case ==
    /\ caller_pc = "idle"
    /\ request >= 1
    /\ Truthy(session_state.markdown_output)
    /\ pc = "done"
    /\ markdown_content = session_state.markdown_output.v
    /\ companies = <<>>

\* C14: in both callers, when a request's conversion gave Markdown and the
\* extraction returned an empty list, the raw Markdown has been shown for that
\* request (up to trailing whitespace) and no JSON was written or shown for
\* it; the Streamlit session holds no parsed JSON and a count of zero.
C14_RawShownNoArtifact ==
    C14_Case =>
        /\ \E x \in effects :
              /\ x.kind = "raw_markdown"
              /\ rstrip(x.body) = rstrip(session_state.markdown_output.v)
        /\ \A x \in effects : x.kind \notin {"json_written", "json_shown"}
        /\ entry = "streamlit_markitdown_app" =>
              /\ session_state.parsed_companies_json = PyNone
              /\ session_state.num_companies_parsed = 0

C14_Witness ==
    /\ C14_Case
    /\ request = 2
    /\ entry = "camel_markitdown_client"
    /\ Truthy(session_state.parsed_companies_json)
    /\ diags # <<>>

\* the positions that bound the comma-separated pieces of s
Cuts(s) == {0} \cup {i \in 1..Len(s) : s[i] = ","} \cup {Len(s) + 1}

NthCut(C, k) == CHOOSE x \in C : Cardinality({y \in C : y < x}) = k - 1

\* the pieces of s between its commas, in order
PiecesOf(s) ==
    [k \in 1..(Cardinality(Cuts(s)) - 1) |->
        SubSeq(s, NthCut(Cuts(s), k) + 1, NthCut(Cuts(s), k + 1) - 1)]

Inked(x) == {i \in 1..Len(x) : x[i] \notin Whitespace}

\* x without the whitespace at its two ends
TrimOf(x) ==
    IF Inked(x) = {} THEN <<>>
    ELSE SubSeq(x, CHOOSE i \in Inked(x) : \A j \in Inked(x) : i <= j,
                   CHOOSE i \in Inked(x) : \A j \in Inked(x) : i >= j)

EachTrimmed(xs) == [i \in 1..Len(xs) |-> TrimOf(xs[i])]

NotEmpty(x) == x # <<>>

\* each element trimmed, those empty after trimming dropped, order kept
Kept(xs) == SelectSeq(EachTrimmed(xs), NotEmpty)

\* the Tags of the object constructed
TagsBuilt == companies[1].Tags

C15_Str(v) ==
    /\ (v.t = "str" /\ lower(v.v) # NAN) => TagsBuilt = PyList(Kept(PiecesOf(v.v)))
    /\ (v.t = "str" /\ lower(v.v) = NAN) => TagsBuilt = PyNone
    /\ v = PyStr(Example_ai_fintech_saas) =>
          TagsBuilt = PyList(<<<<"a", "i">>, <<"f", "i", "n", "t", "e", "c", "h">>, <<"s", "a", "a", "s">>>>)

C15_Original(v) ==
    /\ C15_Str(v)
    /\ v.t = "list" => TagsBuilt = PyList(EachTrimmed(v.v))

\* C15 as stated: Tags given as a list come back with each element trimmed,
\* element for element.
C15_ListPassesThrough ==
    pc = "constructed" => (Len(companies) = 1 /\ C15_Original(kwargs[F_Tags]))

C15_Amended(v) ==
    /\ C15_Str(v)
    /\ v.t = "list" => TagsBuilt = PyList(Kept(v.v))

\* C15 (amended): a Tags str that is not the sentinel gives its comma-separated
\* pieces in order, each trimmed, those empty after trimming dropped; the
\* sentinel gives no tags (None); a Tags list gives its elements in order, each
\* trimmed, and those empty after trimming dropped as well.
C15_TagSplitting ==
    pc = "constructed" => (Len(companies) = 1 /\ C15_Amended(kwargs[F_Tags]))

C15_Witness ==
    /\ pc = "constructed"
    /\ kwargs[F_Tags] = PyList(<<<<" ", "b", " ">>, <<" ">>, <<"a", "i">>>>)
    /\ TagsBuilt = PyList(<<<<"b">>, <<"a", "i">>>>)

====
